---- MODULE Spec2Model ----
(***************************************************************************)
(* Model of the service monitor engine (src/src/service_monitor.py) and of *)
(* the dashboard thread that reads it (src/src/gui.py).                    *)
(*                                                                         *)
(* Time is counted in whole seconds.  A tick is one iteration of           *)
(* ServiceMonitor.monitor_loop.                                            *)
(***************************************************************************)
EXTENDS Integers, Sequences, FiniteSets, TLC

\* ------------------------------------------------------------------ bounds
\* Number of iterations of monitor_loop that are explored.
MaxTicks == 2
\* Largest value of thresholds.red_consecutive_failures that is explored.
MaxThreshold == 2
\* Longest time (seconds) a request that is not timed out takes in the calls
\* of check_service that are explored on their own.
MaxElapsed == 2
\* ------------------------------------------------------------ enumerations
\* ServiceStatus: the members of the Enum.
GREEN == "GREEN"
YELLOW == "YELLOW"
RED == "RED"
ServiceStatus == {GREEN, YELLOW, RED}

\* status.value: the string of a member.
StatusValue(status) ==
    CASE status = GREEN -> "green"
      [] status = YELLOW -> "yellow"
      [] status = RED -> "red"

\* ServiceStatus(value) succeeds for these strings and raises ValueError for
\* every other one.
StatusValues == {StatusValue(status) : status \in ServiceStatus}

\* ServiceStatus(value): the member that has this value.
ServiceStatusOf(value) == CHOOSE status \in ServiceStatus : StatusValue(status) = value

\* Python's None
None == "None"

\* ------------------------------------------------------------------ config
\* monitoring.check_interval (seconds)
CheckInterval == 3600
\* monitoring.timeout (seconds)
Timeout == 5
\* monitoring.history_duration (hours)
HistoryDuration == 1
\* thresholds.yellow_response_time (seconds)
YellowResponseTime == 1
\* service_config.get('expected_status', 200)
DefaultExpectedStatus == 200

\* config['services']: the configured endpoints, in config order.
ServiceConfigs ==
    << [name |-> "api", url |-> "http://api", expected_status |-> DefaultExpectedStatus],
       [name |-> "web", url |-> "http://web", expected_status |-> DefaultExpectedStatus] >>

ConfigNames == {ServiceConfigs[i].name : i \in 1..Len(ServiceConfigs)}

\* Names a reader may ask for: the configured ones and one unknown name.
ReaderNames == ConfigNames \cup {"unknown"}

\* ------------------------------------------------------------- pure helpers
Last(s) == s[Len(s)]

Max(S) == CHOOSE x \in S : \A y \in S : y <= x

\* ServiceCheck(timestamp, status, response_time, error)
ServiceCheck(ts, st, rt, err) ==
    [timestamp |-> ts, status |-> st, response_time |-> rt, error |-> err]

\* The raw outcomes of one HTTP GET: a timeout, another transport failure
\* after `elapsed` seconds, or a response with a status code after `elapsed`.
RawOutcome(kind, code, elapsed) == [kind |-> kind, code |-> code, elapsed |-> elapsed]

RawOutcomes ==
    { RawOutcome("timeout", 0, Timeout),
      RawOutcome("response", 200, 1),
      RawOutcome("response", 200, 2) }

\* The raw outcomes of the calls of check_service that are explored on their
\* own: every kind, status codes on both sides of 200 and 400, elapsed times
\* below, at and above yellow_response_time.
ProbeCodes == {199, 200, 302, 399, 400, 404, 500}

ProbeRawOutcomes ==
    {RawOutcome("timeout", 0, Timeout)}
        \cup {RawOutcome("error", 0, elapsed) : elapsed \in 0..MaxElapsed}
        \cup {RawOutcome("response", code, elapsed) :
                 code \in ProbeCodes, elapsed \in 0..MaxElapsed}

\* The service_config arguments of those calls: expected_status is the
\* default or a configured code.
ProbeConfigs ==
    {[name |-> "api", url |-> "http://api", expected_status |-> expected] :
        expected \in {DefaultExpectedStatus, 404}}

\* The values of time.time() at which those calls start.
ProbeStartTimes == {0, CheckInterval}

\* error = f"HTTP {response.status}"
HttpError(code) == "HTTP " \o ToString(code)

\* Mutant of CheckService: a response that takes exactly yellow_response_time
\* is YELLOW already.
CheckServiceYellowAtThreshold(service_config, start_time, raw) ==
    IF raw.kind = "timeout"
    THEN ServiceCheck(start_time + Timeout, RED, Timeout, "Timeout")
    ELSE IF raw.kind = "error"
    THEN ServiceCheck(start_time + raw.elapsed, RED, raw.elapsed, "ClientError")
    ELSE IF raw.code = service_config.expected_status
            \/ (200 <= raw.code /\ raw.code < 400)
    THEN ServiceCheck(start_time + raw.elapsed,
                      IF raw.elapsed >= YellowResponseTime THEN YELLOW ELSE GREEN,
                      raw.elapsed, None)
    ELSE ServiceCheck(start_time + raw.elapsed, RED, raw.elapsed, HttpError(raw.code))

\* ServiceMonitor.check_service: the ServiceCheck built from a raw outcome of
\* a request started at start_time.
CheckService(service_config, start_time, raw) ==
    IF raw.kind = "timeout"
    THEN ServiceCheck(start_time + Timeout, RED, Timeout, "Timeout")
    ELSE IF raw.kind = "error"
    THEN ServiceCheck(start_time + raw.elapsed, RED, raw.elapsed, "ClientError")
    ELSE IF raw.code = service_config.expected_status
            \/ (200 <= raw.code /\ raw.code < 400)
    THEN ServiceCheck(start_time + raw.elapsed,
                      IF raw.elapsed > YellowResponseTime THEN YELLOW ELSE GREEN,
                      raw.elapsed, None)
    ELSE ServiceCheck(start_time + raw.elapsed, RED, raw.elapsed, HttpError(raw.code))

\* Mutant of FreshServiceData: a new service starts RED.
FreshServiceDataRed(service_config) ==
    [name |-> service_config.name,
     url |-> service_config.url,
     current_status |-> RED,
     last_check |-> 0,
     response_time |-> 0,
     consecutive_failures |-> 0,
     history |-> << >>]

\* ServiceData(...) as created by _initialize_services for a new name.
FreshServiceData(service_config) ==
    [name |-> service_config.name,
     url |-> service_config.url,
     current_status |-> GREEN,
     last_check |-> 0,
     response_time |-> 0,
     consecutive_failures |-> 0,
     history |-> << >>]

\* ServiceData.to_dict: the statuses become their values, every other field
\* is copied.
ToDict(service) ==
    [name |-> service.name,
     url |-> service.url,
     current_status |-> StatusValue(service.current_status),
     last_check |-> service.last_check,
     response_time |-> service.response_time,
     consecutive_failures |-> service.consecutive_failures,
     history |-> [i \in 1..Len(service.history) |->
                    [timestamp |-> service.history[i].timestamp,
                     status |-> StatusValue(service.history[i].status),
                     response_time |-> service.history[i].response_time,
                     error |-> service.history[i].error]]]

\* The values ServiceCheck.error takes: None and the messages of check_service.
ErrorValues == {None, "Timeout", "ClientError"} \cup {HttpError(code) : code \in ProbeCodes}

\* json.dump of an Optional[str]: None is written as null, a string between
\* quotes.  The numbers are written as themselves and read back equal.
JsonText(value) == IF value = None THEN "null" ELSE "\"" \o value \o "\""

\* json.load of such a text: the value that is written this way.
JsonParse(text) == CHOOSE value \in ErrorValues : JsonText(value) = text

\* json.dump of one to_dict(): what the file holds for a service.
JsonDump(dict) ==
    [dict EXCEPT !.history = [i \in 1..Len(@) |-> [@[i] EXCEPT !.error = JsonText(@)]]]

\* _load_data, lines 113-129: ServiceData rebuilt from one record of the file.
FromDict(record) ==
    [name |-> record.name,
     url |-> record.url,
     current_status |-> ServiceStatusOf(record.current_status),
     last_check |-> record.last_check,
     response_time |-> record.response_time,
     consecutive_failures |-> record.consecutive_failures,
     history |-> [i \in 1..Len(record.history) |->
                    ServiceCheck(record.history[i].timestamp,
                                 ServiceStatusOf(record.history[i].status),
                                 record.history[i].response_time,
                                 JsonParse(record.history[i].error))]]

\* _load_data, lines 113-129: rebuilding a record raises (here ValueError of
\* ServiceStatus(...)) when one of its statuses is not a value of the Enum.
Raises(record) ==
    \/ record.current_status \notin StatusValues
    \/ \E i \in 1..Len(record.history) : record.history[i].status \notin StatusValues

\* Mutant of AppendCheck: the check is put in front of the history.
AppendCheckAtFront(service, check) == [service EXCEPT !.history = << check >> \o @]

\* _update_service_status, line 214: service.history.append(check)
AppendCheck(service, check) == [service EXCEPT !.history = Append(@, check)]

\* _update_service_status, line 215: service.last_check = check.timestamp
SetLastCheck(service, check) == [service EXCEPT !.last_check = check.timestamp]

\* _update_service_status, line 216: service.response_time = check.response_time
SetResponseTime(service, check) ==
    [service EXCEPT !.response_time = check.response_time]

\* _update_service_status, lines 213-216: history, last_check, response_time.
UpdateHistory(service, check) ==
    SetResponseTime(SetLastCheck(AppendCheck(service, check), check), check)

\* Mutant of UpdateFailureCounter: a YELLOW check counts as a failure too.
UpdateFailureCounterCountsYellow(service, check) ==
    [service EXCEPT !.consecutive_failures =
        IF check.status # GREEN THEN @ + 1 ELSE 0]

\* _update_service_status, lines 218-222: the failure counter.
UpdateFailureCounter(service, check) ==
    [service EXCEPT !.consecutive_failures =
        IF check.status = RED THEN @ + 1 ELSE 0]

\* Mutant of DetermineStatus: the else branch is missing, so below the
\* threshold the status keeps its old value.
DetermineStatusWithoutElse(service, check, red_threshold) ==
    [service EXCEPT !.current_status =
        IF service.consecutive_failures >= red_threshold THEN RED ELSE @]

\* Mutant of DetermineStatus: a RED check below the threshold leaves the status
\* as it was, so that only a streak of red_threshold failures makes it RED.
DetermineStatusEscalatesAtThreshold(service, check, red_threshold) ==
    [service EXCEPT !.current_status =
        IF service.consecutive_failures >= red_threshold THEN RED
        ELSE IF check.status = RED THEN @ ELSE check.status]

\* _update_service_status, lines 224-229: the current status.
DetermineStatus(service, check, red_threshold) ==
    [service EXCEPT !.current_status =
        IF service.consecutive_failures >= red_threshold THEN RED ELSE check.status]

\* _update_service_status, lines 210-229: the service after the whole update.
UpdatedService(service, check, red_threshold) ==
    DetermineStatus(UpdateFailureCounter(UpdateHistory(service, check), check),
                    check, red_threshold)

\* Mutant of KeptHistory: a check taken exactly at the cutoff is kept.
KeptHistoryKeepsCutoff(history, cutoff_time) ==
    SelectSeq(history, LAMBDA check : check.timestamp >= cutoff_time)

\* Mutant of KeptHistory: one pass removes only the first expired check.
KeptHistoryDropsOneExpired(history, cutoff_time) ==
    LET expired == {i \in 1..Len(history) : history[i].timestamp <= cutoff_time}
    IN IF expired = {}
       THEN history
       ELSE LET first == CHOOSE i \in expired : \A j \in expired : i <= j
            IN [j \in 1..(Len(history) - 1) |->
                  IF j < first THEN history[j] ELSE history[j + 1]]

\* _cleanup_old_data, lines 148-151: the checks that are kept.
KeptHistory(history, cutoff_time) ==
    SelectSeq(history, LAMBDA check : check.timestamp > cutoff_time)

\* _cleanup_old_data, lines 144-145
CutoffTime(t) == t - HistoryDuration * 3600

\* _cleanup_old_data, lines 147-151: every service after the pass.
CleanedUp(svcs, cutoff_time) ==
    [n \in DOMAIN svcs |-> [svcs[n] EXCEPT !.history = KeptHistory(@, cutoff_time)]]


\* for callback in self.callbacks: callback(name, old_status, new_status)
\* (lines 232-234).  raiser is the position of the first callback that raises,
\* 0 when none does: the loop stops at it.
Deliveries(cbs, raiser, name, old_status, new_status) ==
    IF old_status = new_status
    THEN << >>
    ELSE [i \in 1..(IF raiser = 0 THEN Len(cbs) ELSE raiser) |->
            [pos |-> i, callback |-> cbs[i], name |-> name,
             old_status |-> old_status, new_status |-> new_status]]

\* register_callback: self.callbacks.append(callback)
Registered(cbs, callback) == Append(cbs, callback)

\* Mutant of NextPhase: the data is saved before it is cleaned up.
NextPhaseSavesFirst(phase) ==
    CASE phase = "top" -> "gather"
      [] phase = "gather" -> "apply"
      [] phase = "apply" -> "save"
      [] phase = "save" -> "cleanup"
      [] phase = "cleanup" -> "sleep"
      [] phase = "sleep" -> "top"

\* monitor_loop: the order of the phases of one iteration of the while loop.
NextPhase(phase) ==
    CASE phase = "top" -> "gather"
      [] phase = "gather" -> "apply"
      [] phase = "apply" -> "cleanup"
      [] phase = "cleanup" -> "save"
      [] phase = "save" -> "sleep"
      [] phase = "sleep" -> "top"

\* Mutant of ResultSlot: the results are listed in the order in which the
\* tasks finish.
ResultSlotByCompletion(i, finished) == Cardinality(finished) + 1

\* asyncio.gather (line 254): the result of the i-th task is the i-th element
\* of results, whichever tasks have finished before it.
ResultSlot(i, finished) == i

\* Mutant of LoopTest: the loop does not look at self.running.
LoopTestIgnoresStop(is_running) == TRUE

\* monitor_loop, line 245: while self.running
LoopTest(is_running) == is_running

\* get_service_data: self.services.get(name) hands out the stored object
\* itself (a reference), or None for an unknown name.
GetServiceDataResult(svcs, name) ==
    IF name \in DOMAIN svcs
    THEN [kind |-> "service", name |-> name]
    ELSE [kind |-> "none", name |-> name]

\* get_all_services: return self.services hands out the dictionary itself.
GetAllServicesResult(svcs) == [kind |-> "all", name |-> ""]

\* ------------------------------------------------------------------- state
VARIABLES
    config,       \* the loaded configuration (read-only)
    services,     \* self.services: name -> ServiceData
    keys,         \* the keys of self.services in insertion order
    callbacks,    \* self.callbacks
    running,      \* self.running
    data_file,    \* contents of data/service_data.json, or None when absent
    pc,           \* position of monitor_loop
    tick,         \* number of iterations of the while loop started so far
    now,          \* time.time()
    start_time,   \* start_time of the probes of the current iteration
    results,      \* the ServiceCheck of each task of the current iteration
    completed,    \* the tasks of the current iteration that have returned
    next,         \* position of the for loop over zip(service_configs, results)
    log,          \* history variable: what the current iteration has done
    notified,     \* history variable: callback invocations of this iteration
    last,         \* history variable: the latest _update_service_status call
    held,         \* what the latest read call of the reader returned
    seen,         \* history variable: the value held showed when returned
    call,         \* the frame of _update_service_status in the monitor thread
    ui,           \* the dashboard thread: its position in _update_ui and what it read
    stable,       \* history variable: each service as its latest whole update left it
    probe         \* history variable: the latest call of check_service made on its own

vars == << config, services, keys, callbacks, running, data_file, pc, tick, now,
           start_time, results, completed, next, log, notified, last, held, seen,
           call, ui, stable, probe >>

\* The callbacks that callers register.
Callbacks == {"gui", "sink"}

\* data/service_data.json: absent, holding a JSON object (its members in
\* order, each a key and a record), or holding text that is not JSON.
NoFile == [state |-> "absent", data |-> << >>]
SavedFile(data) == [state |-> "saved", data |-> data]
CorruptFile == [state |-> "corrupt", data |-> << >>]

\* Mutant of Dumped: the newest check of every history is left out, as if the
\* data had been taken before the results of the tick were applied.
DumpedOmitsNewestCheck(ks, svcs) ==
    [i \in 1..Len(ks) |->
        [key |-> ks[i],
         value |-> JsonDump(ToDict([svcs[ks[i]] EXCEPT !.history =
                      IF @ = << >> THEN @ ELSE SubSeq(@, 1, Len(@) - 1)]))]]

\* _save_data, line 137: {name: service.to_dict() for name, service in
\* self.services.items()}, written by json.dump.
Dumped(ks, svcs) ==
    [i \in 1..Len(ks) |-> [key |-> ks[i], value |-> JsonDump(ToDict(svcs[ks[i]]))]]

NoCheck == ServiceCheck(0, None, 0, None)

NoCall ==
    [call |-> 0, name |-> "", check |-> NoCheck, old_status |-> None,
     new_status |-> None, observers |-> << >>, delivered |-> << >>, raiser |-> 0]

Indices == 1..Len(ServiceConfigs)

\* No call of check_service has been made on its own.
NoProbe ==
    [service_config |-> ServiceConfigs[1], raw |-> RawOutcome("none", 0, 0),
     start_time |-> 0, check |-> NoCheck]

\* _update_service_status is not executing.
NoFrame == [pc |-> "none", old_status |-> None]

\* The fields of a ServiceData that _update_ui displays.
Shown(service) ==
    [current_status |-> service.current_status,
     response_time |-> service.response_time,
     last_check |-> service.last_check]

\* _update_ui is not executing.
UiIdle ==
    [pc |-> "idle", i |-> 1,
     view |-> [color |-> None, label |-> None, response_time |-> 0, last_check |-> 0],
     window |-> {}]

\* What a handle returned by a read call shows now.
Deref(handle) ==
    CASE handle.kind = "service" -> services[handle.name]
      [] handle.kind = "all" -> services
      [] OTHER -> None

\* _load_data, lines 106-131: the number of records of the file that are
\* loaded.  json.load reads the whole file first, so a file that is not JSON
\* loads nothing; the records are then rebuilt in file order, and the first
\* one that raises ends the loop (the except clause prints and returns).
LoadedCount(file) ==
    IF file.state # "saved"
    THEN 0
    ELSE LET bad == {i \in 1..Len(file.data) : Raises(file.data[i].value)}
         IN IF bad = {} THEN Len(file.data)
            ELSE (CHOOSE i \in bad : \A j \in bad : i <= j) - 1

\* _load_data: the keys self.services has after it, in insertion order.
LoadedKeys(file) == [i \in 1..LoadedCount(file) |-> file.data[i].key]

\* _load_data: self.services after it.
LoadedServices(file) ==
    [n \in {file.data[i].key : i \in 1..LoadedCount(file)} |->
        FromDict(file.data[CHOOSE i \in 1..LoadedCount(file) : file.data[i].key = n].value)]

\* _initialize_services: the configured names that are not in self.services
\* yet are added in config order.
InitializedKeys(loaded_keys) ==
    loaded_keys \o
    SelectSeq([i \in Indices |-> ServiceConfigs[i].name],
              LAMBDA n : n \notin {loaded_keys[i] : i \in 1..Len(loaded_keys)})

\* Mutant of InitializedServices: every configured service is created anew,
\* loaded or not.
InitializedServicesResetsAll(loaded) ==
    [n \in DOMAIN loaded \cup ConfigNames |->
        IF n \notin ConfigNames
        THEN loaded[n]
        ELSE FreshServiceData(CHOOSE c \in {ServiceConfigs[i] : i \in Indices} :
                                c.name = n)]

\* _initialize_services: a loaded entry is left alone, a missing one is new.
InitializedServices(loaded) ==
    [n \in DOMAIN loaded \cup ConfigNames |->
        IF n \in DOMAIN loaded
        THEN loaded[n]
        ELSE FreshServiceData(CHOOSE c \in {ServiceConfigs[i] : i \in Indices} :
                                c.name = n)]

\* State after ServiceMonitor.__init__ finds this file on disk, and after the
\* callbacks cbs have been registered.
ConstructedFrom(file, cbs) ==
    /\ config \in [red_consecutive_failures : 1..MaxThreshold]
    /\ services = InitializedServices(LoadedServices(file))
    /\ keys = InitializedKeys(LoadedKeys(file))
    /\ callbacks = cbs
    /\ running = FALSE
    /\ data_file = file
    /\ pc = "idle"
    /\ tick = 0
    /\ now = 0
    /\ start_time = 0
    /\ results = [i \in Indices |-> NoCheck]
    /\ completed = {}
    /\ next = 1
    /\ log = << >>
    /\ notified = << >>
    /\ last = NoCall
    /\ held = [kind |-> "none", name |-> ""]
    /\ seen = None
    /\ call = NoFrame
    /\ ui = UiIdle
    /\ stable = [n \in ConfigNames |-> Shown(services[n])]
    /\ probe = NoProbe

\* State after ServiceMonitor.__init__ with no data file on disk.
Constructed(cbs) == ConstructedFrom(NoFile, cbs)

Init == Constructed(<< >>)

\* ----------------------------------------------------------------- actions
\* register_callback(callback); every callback is registered at most once.
RegisterCallback ==
    /\ \E callback \in Callbacks \ {callbacks[i] : i \in 1..Len(callbacks)} :
         callbacks' = Registered(callbacks, callback)
    /\ UNCHANGED << config, keys, probe, services, running, data_file, pc, tick, now, start_time,
                    results, completed, next, log, notified, last, held, seen,
                    call, ui, stable >>

\* monitor_loop, lines 242-243: the coroutine starts running.
StartLoop ==
    /\ pc = "idle"
    /\ running' = TRUE
    /\ pc' = "top"
    /\ UNCHANGED << config, keys, probe, services, callbacks, data_file, tick, now, start_time,
                    results, completed, next, log, notified, last, held, seen,
                    call, ui, stable >>

\* stop(): self.running = False.  A call that finds it False already changes
\* nothing, so only the calls that find it True are steps.
Stop ==
    /\ running
    /\ running' = FALSE
    /\ UNCHANGED << config, keys, probe, services, callbacks, data_file, pc, tick, now, start_time,
                    results, completed, next, log, notified, last, held, seen,
                    call, ui, stable >>

\* monitor_loop, lines 245-254: the loop test, then one task per service is
\* created and gather starts them.
BeginTick ==
    /\ pc = "top"
    /\ LoopTest(running)
    /\ tick < MaxTicks
    /\ tick' = tick + 1
    /\ start_time' = now
    /\ results' = [i \in Indices |-> NoCheck]
    /\ completed' = {}
    /\ log' = << >>
    /\ notified' = << >>
    /\ pc' = NextPhase("top")
    /\ UNCHANGED << config, keys, probe, services, callbacks, running, data_file, now, next,
                    last, held, seen,
                    call, ui, stable >>

\* monitor_loop, line 245: the loop test fails and the coroutine returns.
ExitLoop ==
    /\ pc = "top"
    /\ ~LoopTest(running)
    /\ pc' = "stopped"
    /\ UNCHANGED << config, keys, probe, services, callbacks, running, data_file, tick, now,
                    start_time, results, completed, next, log, notified, last,
                    held, seen,
                    call, ui, stable >>

\* check_service returns for the i-th service; the tasks finish in any order.
ProbeComplete ==
    /\ pc = "gather"
    /\ \E i \in Indices \ completed, raw \in RawOutcomes :
         LET check == CheckService(ServiceConfigs[i], start_time, raw) IN
           /\ results' = [results EXCEPT ![ResultSlot(i, completed)] = check]
           /\ completed' = completed \cup {i}
           /\ log' = Append(log, [op |-> "probe", name |-> ServiceConfigs[i].name,
                                  check |-> check])
    /\ UNCHANGED << config, keys, probe, services, callbacks, running, data_file, pc, tick, now,
                    start_time, next, notified, last, held, seen,
                    call, ui, stable >>

\* monitor_loop, line 254: gather returns once every task has returned; the
\* clock then shows the time at which the slowest task returned.
Gathered ==
    /\ pc = "gather"
    /\ completed = Indices
    /\ now' = Max({results[i].timestamp : i \in Indices} \cup {now})
    /\ next' = 1
    /\ pc' = NextPhase("gather")
    /\ UNCHANGED << config, keys, probe, services, callbacks, running, data_file, tick, start_time,
                    results, completed, log, notified, last, held, seen,
                    call, ui, stable >>

\* monitor_loop, lines 257-258: one call of _update_service_status (lines
\* 208-234).  An exception raised by a callback leaves _update_service_status
\* and monitor_loop, neither of which catches it.
UpdateServiceStatus ==
    /\ pc = "apply"
    /\ LET name == ServiceConfigs[next].name
           check == results[next]
           service == services[name]
           old_status == service.current_status
           updated == UpdatedService(service, check, config.red_consecutive_failures)
       IN \E raiser \in 0..(IF old_status = updated.current_status
                            THEN 0 ELSE Len(callbacks)) :
            LET delivered == Deliveries(callbacks, raiser, name, old_status,
                                        updated.current_status) IN
              /\ services' = [services EXCEPT ![name] = updated]
              /\ notified' = notified \o delivered
              /\ log' = Append(log, [op |-> "apply", name |-> name, check |-> check])
              /\ last' = [call |-> next, name |-> name, check |-> check,
                          old_status |-> old_status,
                          new_status |-> updated.current_status,
                          observers |-> callbacks, delivered |-> delivered,
                          raiser |-> raiser]
              /\ IF raiser > 0
                 THEN pc' = "crashed" /\ next' = next
                 ELSE IF next = Len(ServiceConfigs)
                 THEN pc' = NextPhase("apply") /\ next' = next
                 ELSE pc' = pc /\ next' = next + 1
              /\ stable' = [stable EXCEPT ![name] = Shown(updated)]
    /\ UNCHANGED << config, keys, probe, callbacks, running, data_file, tick, now, start_time,
                    results, completed, held, seen, call, ui >>

\* _cleanup_old_data
CleanupOldData ==
    /\ pc = "cleanup"
    /\ services' = CleanedUp(services, CutoffTime(now))
    /\ log' = Append(log, [op |-> "evict", name |-> "", check |-> NoCheck])
    /\ pc' = NextPhase("cleanup")
    /\ UNCHANGED << config, keys, probe, callbacks, running, data_file, tick, now, start_time,
                    results, completed, next, notified, last, held, seen,
                    call, ui, stable >>

\* _save_data: the file holds to_dict() of every service.
SaveData ==
    /\ pc = "save"
    /\ data_file' = SavedFile(Dumped(keys, services))
    /\ log' = Append(log, [op |-> "persist", name |-> "", check |-> NoCheck])
    /\ pc' = NextPhase("save")
    /\ UNCHANGED << config, keys, probe, services, callbacks, running, tick, now, start_time,
                    results, completed, next, notified, last, held, seen,
                    call, ui, stable >>

\* _save_data raises (mkdir, open or json.dump fails): nothing catches it in
\* monitor_loop.  open(..., 'w') may already have truncated the file.
SaveDataFails ==
    /\ pc = "save"
    /\ \/ data_file' = data_file
       \/ data_file' = CorruptFile
    /\ pc' = "crashed"
    /\ UNCHANGED << config, keys, probe, services, callbacks, running, tick, now, start_time,
                    results, completed, next, log, notified, last, held, seen,
                    call, ui, stable >>

\* monitor_loop, line 265: await asyncio.sleep(check_interval)
Sleep ==
    /\ pc = "sleep"
    /\ now' = now + CheckInterval
    /\ pc' = NextPhase("sleep")
    /\ UNCHANGED << config, keys, probe, services, callbacks, running, data_file, tick, start_time,
                    results, completed, next, log, notified, last, held, seen,
                    call, ui, stable >>

\* get_service_data(name), called by a reader
GetServiceData ==
    /\ \E name \in ReaderNames :
         /\ held' = GetServiceDataResult(services, name)
         /\ seen' = IF name \in DOMAIN services THEN services[name] ELSE None
    /\ UNCHANGED << config, keys, probe, services, callbacks, running, data_file, pc, tick, now,
                    start_time, results, completed, next, log, notified, last,
                    call, ui, stable >>

\* get_all_services(), called by a reader
GetAllServices ==
    /\ held' = GetAllServicesResult(services)
    /\ seen' = services
    /\ UNCHANGED << config, keys, probe, services, callbacks, running, data_file, pc, tick, now,
                    start_time, results, completed, next, log, notified, last,
                    call, ui, stable >>

\* The steps of monitor_loop other than the calls of _update_service_status.
LoopControl ==
    \/ StartLoop
    \/ BeginTick
    \/ ExitLoop
    \/ ProbeComplete
    \/ Gathered
    \/ CleanupOldData
    \/ SaveData
    \/ SaveDataFails
    \/ Sleep

\* The steps of monitor_loop on its own event loop: nothing runs between the
\* statements of _update_service_status.
MonitorLoop ==
    \/ LoopControl
    \/ UpdateServiceStatus

\* The engine with its callers: observers are registered, stop() is requested.
Next ==
    \/ MonitorLoop
    \/ RegisterCallback
    \/ Stop

Spec == Init /\ [][Next]_vars

\* The engine with a reader of its read API; stop() is requested.
NextReader ==
    \/ MonitorLoop
    \/ Stop
    \/ GetServiceData
    \/ GetAllServices

SpecReader == Init /\ [][NextReader]_vars

\* ------------------------------------------------ check_service on its own
\* await check_service(service_config): one call, with the raw outcome of its
\* request, and the ServiceCheck it returns.
CheckServiceCall ==
    /\ \E service_config \in ProbeConfigs, t \in ProbeStartTimes, raw \in ProbeRawOutcomes :
         probe' = [service_config |-> service_config, raw |-> raw, start_time |-> t,
                   check |-> CheckService(service_config, t, raw)]
    /\ UNCHANGED << config, keys, services, callbacks, running, data_file, pc, tick,
                    now, start_time, results, completed, next, log, notified, last,
                    held, seen, call, ui, stable >>

NextProbe == CheckServiceCall

SpecProbe == Init /\ [][NextProbe]_vars

\* ------------------------------------------------ the data file across runs
\* A ServiceData as an earlier run of the engine left it.
Earlier(name, status, failures, history) ==
    [name |-> name,
     url |-> "http://" \o name,
     current_status |-> status,
     last_check |-> Last(history).timestamp,
     response_time |-> Last(history).response_time,
     consecutive_failures |-> failures,
     history |-> history]

\* Services as earlier runs saved them; the engine starts at time 0, so their
\* checks have negative timestamps, around one history_duration ago.
EarlierApi ==
    Earlier("api", RED, 2, << ServiceCheck(-3598, RED, Timeout, "Timeout"),
                              ServiceCheck(-3596, RED, Timeout, "Timeout") >>)
EarlierWeb == Earlier("web", GREEN, 0, << ServiceCheck(-3599, GREEN, 1, None) >>)
\* "old" was configured in an earlier run and is not in the config any more.
EarlierOld == Earlier("old", YELLOW, 0, << ServiceCheck(-3597, YELLOW, 2, None) >>)

\* A record of the file in which a status is not a value of ServiceStatus.
Malformed(record) == [record EXCEPT !.current_status = "purple"]

\* What the constructor may find on disk: nothing; what an earlier run with
\* the same config saved; what a run with "old" configured and "web" not
\* saved; a JSON file whose second record is malformed; text that is not JSON.
InitialFiles ==
    { NoFile,
      SavedFile(Dumped(<< "api", "web" >>,
                       [n \in {"api", "web"} |-> IF n = "api" THEN EarlierApi ELSE EarlierWeb])),
      SavedFile(Dumped(<< "old", "api" >>,
                       [n \in {"old", "api"} |-> IF n = "old" THEN EarlierOld ELSE EarlierApi])),
      SavedFile(<< [key |-> "api", value |-> JsonDump(ToDict(EarlierApi))],
                   [key |-> "web", value |-> Malformed(JsonDump(ToDict(EarlierWeb)))],
                   [key |-> "old", value |-> JsonDump(ToDict(EarlierOld))] >>),
      CorruptFile }

\* The process ends and the program is started again: ServiceMonitor.__init__
\* builds a new engine from the file as it is on disk.
Restart ==
    /\ pc # "idle"
    /\ services' = InitializedServices(LoadedServices(data_file))
    /\ keys' = InitializedKeys(LoadedKeys(data_file))
    /\ callbacks' = << >>
    /\ running' = FALSE
    /\ pc' = "idle"
    /\ start_time' = 0
    /\ results' = [i \in Indices |-> NoCheck]
    /\ completed' = {}
    /\ next' = 1
    /\ log' = << >>
    /\ notified' = << >>
    /\ last' = NoCall
    /\ held' = [kind |-> "none", name |-> ""]
    /\ seen' = None
    /\ call' = NoFrame
    /\ ui' = UiIdle
    /\ stable' = [n \in ConfigNames |-> Shown(services'[n])]
    /\ UNCHANGED << config, data_file, tick, now, probe >>

InitStore == \E file \in InitialFiles : ConstructedFrom(file, << >>)

\* The engine over several runs of the program.
NextStore ==
    \/ MonitorLoop
    \/ Stop
    \/ Restart

SpecStore == InitStore /\ [][NextStore]_vars

\* ------------------------------------------------ the dashboard (gui.py)
\* ServiceMonitorGUI runs monitor_loop in a background thread (gui.py, lines
\* 47-48 and 379-383) while the main thread runs _update_ui every second.  The
\* two threads interleave between statements, so _update_service_status is
\* modelled statement by statement here.

\* The service and the check of the call of _update_service_status in progress.
CallName == ServiceConfigs[next].name
CallCheck == results[next]

\* Lines 210-214: old_status is read and the check is appended to the history.
UpdateAppend ==
    /\ pc = "apply"
    /\ call.pc = "none"
    /\ call' = [pc |-> "l215", old_status |-> services[CallName].current_status]
    /\ services' = [services EXCEPT ![CallName] = AppendCheck(@, CallCheck)]
    /\ UNCHANGED << config, keys, probe, callbacks, running, data_file, pc, tick, now, start_time,
                    results, completed, next, log, notified, last, held, seen,
                    ui, stable >>

\* Line 215
UpdateLastCheck ==
    /\ call.pc = "l215"
    /\ call' = [call EXCEPT !.pc = "l216"]
    /\ services' = [services EXCEPT ![CallName] = SetLastCheck(@, CallCheck)]
    /\ UNCHANGED << config, keys, probe, callbacks, running, data_file, pc, tick, now, start_time,
                    results, completed, next, log, notified, last, held, seen,
                    ui, stable >>

\* Line 216
UpdateResponseTime ==
    /\ call.pc = "l216"
    /\ call' = [call EXCEPT !.pc = "l219"]
    /\ services' = [services EXCEPT ![CallName] = SetResponseTime(@, CallCheck)]
    /\ UNCHANGED << config, keys, probe, callbacks, running, data_file, pc, tick, now, start_time,
                    results, completed, next, log, notified, last, held, seen,
                    ui, stable >>

\* Lines 218-222
UpdateCounter ==
    /\ call.pc = "l219"
    /\ call' = [call EXCEPT !.pc = "l225"]
    /\ services' = [services EXCEPT ![CallName] = UpdateFailureCounter(@, CallCheck)]
    /\ UNCHANGED << config, keys, probe, callbacks, running, data_file, pc, tick, now, start_time,
                    results, completed, next, log, notified, last, held, seen,
                    ui, stable >>

\* Lines 224-229: with the status assigned the update of the fields is whole.
UpdateStatus ==
    /\ call.pc = "l225"
    /\ call' = [call EXCEPT !.pc = "l232"]
    /\ LET updated == DetermineStatus(services[CallName], CallCheck,
                                      config.red_consecutive_failures) IN
         /\ services' = [services EXCEPT ![CallName] = updated]
         /\ stable' = [stable EXCEPT ![CallName] = Shown(updated)]
         /\ ui' = IF ui.pc \notin {"idle", "closed"} /\ ServiceConfigs[ui.i].name = CallName
                  THEN [ui EXCEPT !.window = @ \cup {Shown(updated)}]
                  ELSE ui
    /\ UNCHANGED << config, keys, probe, callbacks, running, data_file, pc, tick, now, start_time,
                    results, completed, next, log, notified, last, held, seen >>

\* Lines 231-234, and the return to the for loop of monitor_loop (lines
\* 257-258).  The dashboard's callback on_status_change catches what its alerts
\* raise (alert_manager.py), so it returns.
UpdateNotify ==
    /\ call.pc = "l232"
    /\ call' = NoFrame
    /\ LET new_status == services[CallName].current_status
           delivered == Deliveries(callbacks, 0, CallName, call.old_status, new_status)
       IN /\ notified' = notified \o delivered
          /\ log' = Append(log, [op |-> "apply", name |-> CallName, check |-> CallCheck])
          /\ last' = [call |-> next, name |-> CallName, check |-> CallCheck,
                      old_status |-> call.old_status, new_status |-> new_status,
                      observers |-> callbacks, delivered |-> delivered, raiser |-> 0]
    /\ IF next = Len(ServiceConfigs)
       THEN pc' = NextPhase("apply") /\ next' = next
       ELSE pc' = pc /\ next' = next + 1
    /\ UNCHANGED << config, keys, probe, services, callbacks, running, data_file, tick, now,
                    start_time, results, completed, held, seen, ui, stable >>

\* _update_ui, lines 323-324: the next service of status_indicators is looked
\* up; get_service_data returns the stored object.
UiGetService ==
    /\ ui.pc \in {"idle", "l324"}
    /\ ui' = [ui EXCEPT !.pc = "l333",
                        !.view = UiIdle.view,
                        !.window = {stable[ServiceConfigs[ui.i].name]}]
    /\ UNCHANGED << config, keys, probe, services, callbacks, running, data_file, pc, tick, now,
                    start_time, results, completed, next, log, notified, last,
                    held, seen, call, stable >>

\* _update_ui, line 333: the colour of the status light
UiReadColor ==
    /\ ui.pc = "l333"
    /\ ui' = [ui EXCEPT !.pc = "l338",
                        !.view.color = services[ServiceConfigs[ui.i].name].current_status]
    /\ UNCHANGED << config, keys, probe, services, callbacks, running, data_file, pc, tick, now,
                    start_time, results, completed, next, log, notified, last,
                    held, seen, call, stable >>

\* _update_ui, lines 337-339: the status text
UiReadLabel ==
    /\ ui.pc = "l338"
    /\ ui' = [ui EXCEPT !.pc = "l342",
                        !.view.label = services[ServiceConfigs[ui.i].name].current_status]
    /\ UNCHANGED << config, keys, probe, services, callbacks, running, data_file, pc, tick, now,
                    start_time, results, completed, next, log, notified, last,
                    held, seen, call, stable >>

\* _update_ui, lines 342-345: the response time
UiReadResponseTime ==
    /\ ui.pc = "l342"
    /\ ui' = [ui EXCEPT !.pc = "l348",
                        !.view.response_time =
                            services[ServiceConfigs[ui.i].name].response_time]
    /\ UNCHANGED << config, keys, probe, services, callbacks, running, data_file, pc, tick, now,
                    start_time, results, completed, next, log, notified, last,
                    held, seen, call, stable >>

\* _update_ui, lines 348-355: the time of the last check; the indicators of
\* this service are now all set.
UiReadLastCheck ==
    /\ ui.pc = "l348"
    /\ ui' = [ui EXCEPT !.pc = "shown",
                        !.view.last_check =
                            services[ServiceConfigs[ui.i].name].last_check]
    /\ UNCHANGED << config, keys, probe, services, callbacks, running, data_file, pc, tick, now,
                    start_time, results, completed, next, log, notified, last,
                    held, seen, call, stable >>

\* _update_ui, line 323: on to the next service, or (line 368) the update is
\* scheduled again.
UiNext ==
    /\ ui.pc = "shown"
    /\ ui' = IF ui.i < Len(ServiceConfigs)
             THEN [ui EXCEPT !.pc = "l324", !.i = @ + 1]
             ELSE [ui EXCEPT !.pc = "idle", !.i = 1]
    /\ UNCHANGED << config, keys, probe, services, callbacks, running, data_file, pc, tick, now,
                    start_time, results, completed, next, log, notified, last,
                    held, seen, call, stable >>

\* cleanup (gui.py, lines 389-391): the window has closed and stop() is called.
UiCleanup ==
    /\ ui.pc = "idle"
    /\ ui' = [ui EXCEPT !.pc = "closed"]
    /\ running' = FALSE
    /\ UNCHANGED << config, keys, probe, services, callbacks, data_file, pc, tick, now,
                    start_time, results, completed, next, log, notified, last,
                    held, seen, call, stable >>

\* ServiceMonitorGUI.__init__: on_status_change is registered (line 37) before
\* the monitor thread is started.
InitGui == Constructed(<< "gui" >>)

NextGui ==
    \/ LoopControl
    \/ UpdateAppend
    \/ UpdateLastCheck
    \/ UpdateResponseTime
    \/ UpdateCounter
    \/ UpdateStatus
    \/ UpdateNotify
    \/ UiGetService
    \/ UiReadColor
    \/ UiReadLabel
    \/ UiReadResponseTime
    \/ UiReadLastCheck
    \/ UiNext
    \/ UiCleanup

SpecGui == InitGui /\ [][NextGui]_vars

\* ------------------------------------------------ stopping the dashboard's loop
\* The iterations of monitor_loop after the first MaxTicks ones, lines 245-265:
\* the loop test holds and one more iteration runs; what it does to the
\* services is left out.
LaterTick ==
    /\ pc = "top"
    /\ LoopTest(running)
    /\ tick = MaxTicks
    /\ pc' = "later"
    /\ UNCHANGED << config, keys, probe, services, callbacks, running, data_file, tick,
                    now, start_time, results, completed, next, log, notified, last,
                    held, seen, call, ui, stable >>

\* The end of such an iteration: asyncio.sleep returns and the loop test is
\* next.
LaterSleep ==
    /\ pc = "later"
    /\ pc' = "top"
    /\ UNCHANGED << config, keys, probe, services, callbacks, running, data_file, tick,
                    now, start_time, results, completed, next, log, notified, last,
                    held, seen, call, ui, stable >>

\* The monitor thread of the dashboard: monitor_loop, for as long as it runs.
MonitorThread ==
    \/ MonitorLoop
    \/ LaterTick
    \/ LaterSleep

\* The dashboard from the start of its monitor thread (gui.py, line 48; the
\* thread has not executed the first statement of monitor_loop yet) to
\* cleanup().  The thread is scheduled and every await of monitor_loop returns
\* (a request ends at its timeout at the latest, the sleep after
\* check_interval), so monitor_loop takes its next step as long as it has one.
NextStop ==
    \/ MonitorThread
    \/ UiCleanup

SpecStop == InitGui /\ [][NextStop]_vars /\ WF_vars(MonitorThread)


\* ------------------------------------------------------------------ claims
\* A step that is one call of _update_service_status.
AppliedStep == Len(log') = Len(log) + 1 /\ log'[Len(log')].op = "apply"

\* The deliveries of the latest call, as the callbacks invoked, in order.
DeliveredTo == [j \in 1..Len(last.delivered) |-> last.delivered[j].callback]

\* C1: after every call of _update_service_status the service is RED if its
\* consecutive_failures has reached the red threshold, and otherwise has the
\* status of the check that was just applied.
C1_StatusAfterUpdate ==
    [][AppliedStep =>
        LET applied == log'[Len(log')]
            service == services'[applied.name]
        IN IF service.consecutive_failures >= config.red_consecutive_failures
           THEN service.current_status = RED
           ELSE service.current_status = applied.check.status]_vars

\* C1 witness: an update has taken the escalation branch with a threshold
\* above one.
C1_Witness ==
    /\ last.call # 0
    /\ config.red_consecutive_failures > 1
    /\ services[last.name].consecutive_failures >= config.red_consecutive_failures
    /\ services[last.name].current_status = RED

\* C2 (as claimed): a service is RED if and only if its consecutive_failures
\* has reached the red threshold.
C2_RedOnlyAtThreshold ==
    \A n \in ConfigNames :
        services[n].current_status = RED
            <=> services[n].consecutive_failures >= config.red_consecutive_failures

\* C3: consecutive_failures is never negative; a RED check adds exactly one to
\* it and any other check sets it to zero.
C3_FailureCounter ==
    [][/\ \A n \in ConfigNames : services'[n].consecutive_failures >= 0
       /\ AppliedStep =>
            LET applied == log'[Len(log')] IN
              services'[applied.name].consecutive_failures =
                IF applied.check.status = RED
                THEN services[applied.name].consecutive_failures + 1
                ELSE 0]_vars

\* C3 witness: a streak of two RED checks has been counted.
C3_Witness ==
    /\ last.call # 0
    /\ last.check.status = RED
    /\ services[last.name].consecutive_failures = 2

\* C4 (as claimed): the latest update delivered its transition to every
\* registered callback exactly once, with the status before and after the
\* update, if the status changed, and delivered nothing if it did not.
C4_TransitionDelivered ==
    last.call # 0 =>
        IF last.old_status # last.new_status
        THEN /\ \A i \in 1..Len(last.observers) :
                  Cardinality({j \in 1..Len(last.delivered) :
                                 last.delivered[j].pos = i}) = 1
             /\ \A j \in 1..Len(last.delivered) :
                  /\ last.delivered[j].name = last.name
                  /\ last.delivered[j].old_status = last.old_status
                  /\ last.delivered[j].new_status = last.new_status
        ELSE last.delivered = << >>

\* C5 (as claimed): when a callback raised during the latest update, the
\* callbacks after it were still invoked, the service is fully updated and
\* monitor_loop is still running.
C5_ObserverIsolated ==
    last.raiser > 0 =>
        /\ \A i \in 1..Len(last.observers) :
              \E j \in 1..Len(last.delivered) : last.delivered[j].pos = i
        /\ services[last.name].last_check = last.check.timestamp
        /\ services[last.name].response_time = last.check.response_time
        /\ services[last.name].current_status = last.new_status
        /\ pc # "crashed"

\* C6 (as claimed): on a status change the callbacks invoked are all the
\* registered callbacks, in the order of their registration.
C6_RegistrationOrder ==
    (last.call # 0 /\ last.old_status # last.new_status) =>
        DeliveredTo = last.observers


\* C7 (as claimed): what get_service_data or get_all_services returned still
\* shows the value it showed when it was returned.
C7_SnapshotUnchanged ==
    held.kind # "none" => Deref(held) = seen

\* C8 (as claimed): the fields the dashboard thread has displayed for a
\* service are those of the service as one whole update (or the construction)
\* left it, never a mixture of two such states.
C8_NoTornRead ==
    ui.pc = "shown" =>
        \E whole \in ui.window :
            /\ ui.view.color = whole.current_status
            /\ ui.view.label = whole.current_status
            /\ ui.view.response_time = whole.response_time
            /\ ui.view.last_check = whole.last_check

\* Positions of the entries of the log of this iteration that are op on name.
LogEntries(op, name) ==
    {i \in 1..Len(log) : log[i].op = op /\ log[i].name = name}

\* What the log of one iteration may look like: every update comes after the
\* probes of all services, the cleanup after the updates of all services, and
\* the save after the cleanup.
PhasesInOrder ==
    \A i \in 1..Len(log) :
        /\ log[i].op = "apply" =>
              \A n \in ConfigNames : \E j \in LogEntries("probe", n) : j < i
        /\ log[i].op = "evict" =>
              \A n \in ConfigNames : \E j \in LogEntries("apply", n) : j < i
        /\ log[i].op = "persist" =>
              \E j \in LogEntries("evict", "") : j < i

\* C9: within an iteration no update runs before every probe has completed,
\* the cleanup runs after all updates and the save after the cleanup; the
\* probes of the next iteration start only when the previous iteration has
\* saved.
C9_PhasesOrdered ==
    [][/\ PhasesInOrder'
       /\ tick' # tick =>
            (tick = 0 \/ (log # << >> /\ log[Len(log)].op = "persist"))]_vars

\* C9 witness: a second iteration has run through all of its phases.
C9_Witness ==
    /\ tick = 2
    /\ pc = "sleep"
    /\ log # << >>
    /\ log[Len(log)].op = "persist"

\* C10 (as claimed): once the updates of an iteration are over, every
\* configured service has been updated exactly once in it, with the check its
\* own probe returned, and that check is the last of its history.
C10_UpdatedOncePerTick ==
    (tick > 0 /\ pc \in {"cleanup", "crashed"}) =>
        \A n \in ConfigNames :
            /\ Cardinality(LogEntries("apply", n)) = 1
            /\ \A i \in LogEntries("apply", n) :
                  /\ \E j \in LogEntries("probe", n) :
                        j < i /\ log[j].check = log[i].check
                  /\ services[n].history # << >>
                  /\ Last(services[n].history) = log[i].check


\* The names of the entries of the log of this iteration that are op, in order.
LogNames(op) ==
    LET entries == SelectSeq(log, LAMBDA e : e.op = op)
    IN [i \in 1..Len(entries) |-> entries[i].name]

\* The configured names, in config order.
NamesInConfigOrder == [i \in Indices |-> ServiceConfigs[i].name]

\* s is the beginning of t.
IsPrefix(s, t) == Len(s) <= Len(t) /\ \A i \in 1..Len(s) : s[i] = t[i]

\* The position of a configured name in the config.
ConfigIndex(name) == CHOOSE i \in Indices : ServiceConfigs[i].name = name

\* C11: the updates of an iteration follow the order of the configured
\* services, each with the check of its own probe, in whatever order the
\* probes finished; so the callbacks of an iteration are invoked in config
\* order of the services.
C11_AppliedInConfigOrder ==
    /\ IsPrefix(LogNames("apply"), NamesInConfigOrder)
    /\ \A i \in 1..Len(log) :
          log[i].op = "apply" =>
              \E j \in 1..(i - 1) :
                  /\ log[j].op = "probe"
                  /\ log[j].name = log[i].name
                  /\ log[j].check = log[i].check
    /\ \A i, j \in 1..Len(notified) :
          i < j => ConfigIndex(notified[i].name) <= ConfigIndex(notified[j].name)

\* C11 witness: the probes finished in the reverse of the config order with
\* different checks, both services were updated, and both changed status.
C11_Witness ==
    /\ LogNames("probe") = << "web", "api" >>
    /\ LogNames("apply") = NamesInConfigOrder
    /\ results[1] # results[2]
    /\ \E i, j \in 1..Len(notified) : notified[i].name # notified[j].name

\* The loop can take a step.
LoopCanStep == ENABLED MonitorLoop

\* C12: once stop() has been called on the running loop no new iteration
\* starts, the iteration in progress goes on through its phases (the loop is
\* left at the loop test only, after the save of that iteration), and the
\* loop can always take its next step until it has returned.
C12_StopIsCooperative ==
    [][/\ (~running /\ pc # "idle") => tick' = tick
       /\ (pc' = "stopped" /\ pc # "stopped") =>
             /\ pc = "top"
             /\ tick > 0 => (log # << >> /\ log[Len(log)].op = "persist")
       /\ (~running /\ pc \notin {"idle", "stopped", "crashed"}) => LoopCanStep]_vars

\* C12 witness: stop() was called during an iteration, and that iteration
\* has gone on to clean up and is about to save.
C12_Witness ==
    /\ ~running
    /\ pc = "save"
    /\ log # << >>
    /\ log[Len(log)].op = "evict"

\* ---------------------------------------------------------------- eviction
\* A step of _cleanup_old_data.
EvictStep == Len(log') = Len(log) + 1 /\ log'[Len(log')].op = "evict"

\* The positions of a history whose check is newer than the cutoff.
NewerThan(history, cutoff) ==
    {i \in 1..Len(history) : history[i].timestamp > cutoff}

\* The j-th smallest element of a set of positions.
NthOf(S, j) == CHOOSE i \in S : Cardinality({k \in S : k < i}) = j - 1

\* C13: an eviction pass at time now removes from every history exactly the
\* checks with timestamp <= now - history_duration * 3600; the checks with a
\* later timestamp are all kept, in their order, and no other field of any
\* service changes.
C13_EvictionExact ==
    [][EvictStep =>
         /\ DOMAIN services' = DOMAIN services
         /\ \A n \in DOMAIN services :
              LET old == services[n].history
                  new == services'[n].history
                  kept == NewerThan(old, now - HistoryDuration * 3600)
              IN /\ Len(new) = Cardinality(kept)
                 /\ \A j \in 1..Len(new) : new[j] = old[NthOf(kept, j)]
                 /\ [services'[n] EXCEPT !.history = old] = services[n]]_vars

\* C13 witness: the pass has run with the cutoff at -3598; of the two loaded
\* checks of "api" the one taken at -3598 is gone and the one taken at -3596 is
\* kept in front of the check of this tick.
C13_Witness ==
    /\ pc = "save"
    /\ now - HistoryDuration * 3600 = -3598
    /\ Len(services["api"].history) = 2
    /\ services["api"].history[1].timestamp = -3596
    /\ services["api"].history[2].timestamp > 0

\* C14: eviction is idempotent: right after a pass, a second pass at the same
\* time, with no result applied in between, changes nothing.
C14_EvictionIdempotent ==
    pc = "save" => CleanedUp(services, CutoffTime(now)) = services

\* C14 witness: a pass has removed both loaded checks of "api" at once.
C14_Witness ==
    /\ pc = "save"
    /\ tick = 1
    /\ data_file.state = "saved"
    /\ data_file.data[1].key = "api"
    /\ Len(data_file.data[1].value.history) = 2
    /\ Len(services["api"].history) = 1

\* C15: every history is ordered oldest first, by non-decreasing timestamp.
C15_HistoryOrdered ==
    \A n \in DOMAIN services :
      \A i, j \in 1..Len(services[n].history) :
        i < j => services[n].history[i].timestamp <= services[n].history[j].timestamp

\* C15 witness: a history holds loaded checks that survived an eviction and
\* the checks of two ticks.
C15_Witness ==
    /\ tick = 2
    /\ \E n \in DOMAIN services :
         /\ Len(services[n].history) = 4
         /\ services[n].history[1].timestamp < services[n].history[4].timestamp

\* -------------------------------------------------------------- persistence
\* The program is started again.
RestartStep == pc # "idle" /\ pc' = "idle"

\* The last thing the loop did was to save.
JustSaved == log # << >> /\ log[Len(log)].op = "persist"

\* C16: an engine started from the file that was just saved has, for every
\* configured endpoint, exactly the ServiceData that was saved, field by field.
C16_RoundTrip ==
    [][(RestartStep /\ JustSaved) =>
         \A n \in ConfigNames : services'[n] = services[n]]_vars

\* C16 witness: an engine that was started again holds what a tick of the run
\* before it saved: "api" RED after a timeout, "web" with a check without error.
C16_Witness ==
    /\ pc = "idle"
    /\ tick >= 1
    /\ data_file.state = "saved"
    /\ services["api"].current_status = RED
    /\ services["api"].history # << >>
    /\ Last(services["api"].history).timestamp > 0
    /\ Last(services["api"].history).error = "Timeout"
    /\ services["web"].history # << >>
    /\ Last(services["web"].history).timestamp > 0
    /\ Last(services["web"].history).error = None

\* A configured endpoint in the state of a first start.
IsFresh(n) ==
    /\ services[n].current_status = GREEN
    /\ services[n].consecutive_failures = 0
    /\ services[n].history = << >>

\* C17: an engine constructed when there is no data file has every configured
\* endpoint GREEN with 0 failures and an empty history.
C17_FreshWithoutFile ==
    (pc = "idle" /\ data_file.state = "absent") =>
        /\ ConfigNames \subseteq DOMAIN services
        /\ \A n \in ConfigNames : IsFresh(n)

\* C17 witness: the program is started again after a tick whose save failed
\* before a file existed.
C17_Witness ==
    /\ pc = "idle"
    /\ tick >= 1
    /\ data_file.state = "absent"

\* Loading this file fails: it is not JSON, or one of its records is malformed.
LoadFails(file) ==
    \/ file.state = "corrupt"
    \/ /\ file.state = "saved"
       /\ \E i \in 1..Len(file.data) : Raises(file.data[i].value)

\* C18: after a load that failed every configured endpoint starts in the fresh
\* state and none keeps state taken from the file.
C18_FreshAfterFailedLoad ==
    (pc = "idle" /\ LoadFails(data_file)) => \A n \in ConfigNames : IsFresh(n)

\* C19: the keys of self.services are exactly the configured names.
C19_KeysAreConfigNames == DOMAIN services = ConfigNames

\* The keys of the records of the file.
FileKeys(file) == {file.data[i].key : i \in 1..Len(file.data)}

\* C20: a record of the file whose endpoint is not configured stays in the
\* file.
C20_StaleRecordKept ==
    [][\A k \in FileKeys(data_file) \ ConfigNames : k \in FileKeys(data_file')]_vars

\* C21: a save that fails does not stop the loop: from the save phase the
\* loop goes on to its sleep, whether the save succeeded or not.
C21_SaveFailureSurvived ==
    [][pc = "save" => pc' \in {"save", "sleep"}]_vars

\* A step of _save_data that returns.
PersistStep == Len(log') = Len(log) + 1 /\ log'[Len(log')].op = "persist"

\* C22: the file written at the end of a tick holds, for every key of
\* self.services, the state the service has after the last mutation of the
\* tick (the eviction pass): status, last check, response time, failure counter
\* and the history as the eviction left it, entry by entry.
C22_SavedIsCurrent ==
    [][PersistStep =>
         /\ log[Len(log)].op = "evict"
         /\ services' = services
         /\ data_file'.state = "saved"
         /\ FileKeys(data_file') = DOMAIN services
         /\ \A i \in 1..Len(data_file'.data) :
              LET record == data_file'.data[i].value
                  service == services[data_file'.data[i].key]
              IN /\ record.current_status = StatusValue(service.current_status)
                 /\ record.last_check = service.last_check
                 /\ record.response_time = service.response_time
                 /\ record.consecutive_failures = service.consecutive_failures
                 /\ Len(record.history) = Len(service.history)
                 /\ \A j \in 1..Len(record.history) :
                      /\ record.history[j].timestamp = service.history[j].timestamp
                      /\ record.history[j].timestamp > now - HistoryDuration * 3600
                      /\ record.history[j].status = StatusValue(service.history[j].status)
                      /\ record.history[j].response_time = service.history[j].response_time
                      /\ record.history[j].error = JsonText(service.history[j].error)]_vars

\* C22 witness: a tick has saved a history that holds a loaded check, which the
\* eviction kept, and the check of the tick.
C22_Witness ==
    /\ JustSaved
    /\ data_file.state = "saved"
    /\ \E i \in 1..Len(data_file.data) :
         LET history == data_file.data[i].value.history
         IN /\ Len(history) = 2
            /\ history[1].timestamp < 0
            /\ history[2].timestamp > 0

\* C25: for every threshold, after every _update_service_status the status of
\* the service is the status of the check just applied; a RED check on a service
\* that was not RED makes it RED and is a transition, whatever the threshold.
C25_StatusIsCheckStatus ==
    [][AppliedStep =>
         LET applied == log'[Len(log')]
         IN /\ services'[applied.name].current_status = applied.check.status
            /\ (applied.check.status = RED /\ services[applied.name].current_status # RED) =>
                  /\ last'.new_status = RED
                  /\ last'.old_status # last'.new_status
                  /\ callbacks # << >> => last'.delivered # << >>]_vars

\* C25 witness: with a threshold of 2 a GREEN service is RED after one RED
\* check, its failure counter at 1, and the transition has been delivered.
C25_Witness ==
    /\ last.call > 0
    /\ config.red_consecutive_failures = 2
    /\ last.old_status = GREEN
    /\ last.check.status = RED
    /\ services[last.name].consecutive_failures = 1
    /\ services[last.name].current_status = RED
    /\ last.delivered # << >>

\* ------------------------------------------------------------ check_service
\* A call of check_service has been made on its own.
Probed == probe.raw.kind # "none"

\* The response is on the success path.
Accepted(service_config, code) ==
    code = service_config.expected_status \/ code \in 200..399

\* C23: check_service classifies every raw outcome: a timeout is RED with
\* response_time = timeout and error "Timeout"; another transport failure is
\* RED with the elapsed time; a response whose code is the expected one or in
\* 200..399 has no error and is YELLOW exactly when it took more than
\* yellow_response_time, GREEN otherwise; every other response is RED with
\* error "HTTP <code>".
C23_Classification ==
    Probed =>
      LET raw == probe.raw
          check == probe.check
      IN /\ raw.kind = "timeout" =>
              check.status = RED /\ check.response_time = Timeout /\ check.error = "Timeout"
         /\ raw.kind = "error" =>
              check.status = RED /\ check.response_time = raw.elapsed
         /\ (raw.kind = "response" /\ Accepted(probe.service_config, raw.code)) =>
              /\ check.status \in {GREEN, YELLOW}
              /\ check.status = YELLOW <=> raw.elapsed > YellowResponseTime
              /\ check.response_time = raw.elapsed
              /\ check.error = None
         /\ (raw.kind = "response" /\ ~Accepted(probe.service_config, raw.code)) =>
              /\ check.status = RED
              /\ check.response_time = raw.elapsed
              /\ check.error = "HTTP " \o ToString(raw.code)

\* C23 witness: a 404 that is the expected status, answered in exactly
\* yellow_response_time, has been classified GREEN.
C23_Witness ==
    /\ probe.raw.kind = "response"
    /\ probe.raw.code = 404
    /\ probe.service_config.expected_status = 404
    /\ probe.raw.elapsed = YellowResponseTime
    /\ probe.check.status = GREEN

\* C24: every check that check_service returned is RED with an error, or GREEN
\* or YELLOW without one; and a tick in which the result of a failed probe was
\* applied applies the results of all endpoints.
C24_FailureContained ==
    /\ \A i \in completed :
         results[i].status = RED <=> results[i].error # None
    /\ (pc = "crashed" /\ log # << >> /\ log[Len(log)].op = "apply"
           /\ log[Len(log)].check.status = RED) =>
          Len(LogNames("apply")) = Len(ServiceConfigs)

\* ------------------------------------------------------------------ stop()
\* monitor_loop has returned or has been left by an exception.
LoopEnded == pc \in {"stopped", "crashed"}

\* C26: a stop() request is never lost: once cleanup() has called stop(), at
\* whatever point after the monitor thread was started, monitor_loop ends.
C26_StopNotLost == (ui.pc = "closed") ~> LoopEnded

====
